---- MODULE Spec2Model ----
(***************************************************************************)
(* meansTest (src/allMeansTests.py): one call of the one-way comparison of *)
(* means, as a state machine over the position in the function body.       *)
(*                                                                         *)
(* Numbers.  Significance levels and p-values are exact dyadic multiples   *)
(* of 1/20 (0.05 = 1/20, and the bisection only ever adds and halves), so  *)
(* a level is a record [m, e] standing for m / (20 * 2^e).  Statistics and *)
(* critical values live on a small integer grid; what the data and the     *)
(* distribution functions of scipy/statistics return is drawn from that    *)
(* grid by \E.  NaN is a value of its own and every comparison with it is  *)
(* false, as in IEEE arithmetic.  The levels the model follows have short  *)
(* numerators, so the sums and halvings of the loops are exact in binary64 *)
(* too; the one rounding that changes the control flow, 1 - p becoming 1.0 *)
(* for p <= 2^-54, is modelled.                                            *)
(***************************************************************************)
EXTENDS Integers, Sequences, FiniteSets, TLC

\* ---------------------------------------------------------------- bounds
NumGroups == 2
MaxN == 3
MaxStat == 2
MaxExp == 2
MaxMant == 3
MaxMean == 1
MaxVar == 2

\* ------------------------------------------------------ program constants
OKCap == 500
J1Cap == 800
J2Cap == 500

\* ------------------------------------------------------------ identifiers
\* the identifiers the docstring lists (line 23)
DocTests == {"fisher", "cochran", "welch", "james", "box", "scott-smith",
             "brown-forsythe", "alexander-govern", "mehrotra",
             "hartung-agac-makabi", "ozdermir-kurt"}

\* the keys of the dictionary `names` (lines 374-384)
names == [t \in {"fisher", "cochran", "welch", "james", "box", "scott-smith",
                 "brown-forsythe", "alexander-govern", "mehrotra",
                 "hartung-agac-makabi", "ozdemir-kurt"} |->
            CASE t = "fisher" -> "Fisher one-way anova"
              [] t = "cochran" -> "Cochran for Means"
              [] t = "welch" -> "Welch one-way anova"
              [] t = "james" -> "James test"
              [] t = "box" -> "Box correction for Fisher"
              [] t = "scott-smith" -> "Scott and Smith"
              [] t = "brown-forsythe" -> "Brown-Forsythe for Means"
              [] t = "alexander-govern" -> "Alexander-Govern"
              [] t = "mehrotra" -> "Mehrotra modified Brown-Forsythe"
              [] t = "hartung-agac-makabi" -> "Hartung-Agac-Makabi adjusted Welch"
              [] t = "ozdemir-kurt" -> "Ozdermir-Kurt B2"]   \* O for O-umlaut

\* what a caller may pass as `test`: every documented identifier, every key
\* of `names`, and one identifier that is neither
TestVals == DocTests \cup DOMAIN names \cup {"tukey"}

\* ---------------------------------------------------------------- levels
Dy(m, e) == [m |-> m, e |-> e]

NaNP == Dy(0, -1)

PIsNaN(a) == a.e = -1

RECURSIVE Norm(_, _)
Norm(m, e) == IF e > 0 /\ m % 2 = 0 THEN Norm(m \div 2, e - 1) ELSE Dy(m, e)

RECURSIVE Pow2(_)
Pow2(d) == IF d = 0 THEN 1 ELSE 2 * Pow2(d - 1)

\* a + b, exact
DyAdd(a, b) ==
    IF a.m = 0 THEN b
    ELSE IF b.m = 0 THEN a
    ELSE IF a.e >= b.e THEN Norm(a.m + b.m * Pow2(a.e - b.e), a.e)
    ELSE Norm(a.m * Pow2(b.e - a.e) + b.m, b.e)

\* Mid, dividing the sum by 4
MidQuarter(a, b) == LET s == DyAdd(a, b) IN Norm(s.m, s.e + 2)

\* (a + b)/2, exact: the update of pVal in the three loops
Mid(a, b) == LET s == DyAdd(a, b) IN Norm(s.m, s.e + 1)

\* am / 2^ae < bm / 2^be, without forming the common denominator
RECURSIVE LessAligned(_, _, _, _)
LessAligned(am, ae, bm, be) ==
    IF ae = be THEN am < bm
    ELSE IF ae > be
         THEN IF bm > am THEN TRUE
              ELSE IF bm = 0 THEN FALSE
              ELSE LessAligned(am, ae, 2 * bm, be + 1)
         ELSE IF am >= bm THEN FALSE
              ELSE IF am = 0 THEN TRUE
              ELSE LessAligned(2 * am, ae + 1, bm, be)

\* Python's a < b on floats: false when either side is NaN
PLt(a, b) == ~PIsNaN(a) /\ ~PIsNaN(b) /\ LessAligned(a.m, a.e, b.m, b.e)

\* 2^-54 = 5/(20 * 2^52): half the spacing of the doubles just below 1
HalfUlp == Dy(5, 52)

\* 1 - a evaluates to 1.0 in binary64 (ties go to the even neighbour, 1.0)
RoundsToOne(a) == ~PIsNaN(a) /\ ~PLt(HalfUlp, a)

\* a/2, exact
Half(a) == IF a.m = 0 THEN a ELSE Dy(a.m, a.e + 1)

\* the quantile at probability 1.0: +inf
InfP == Dy(0, -3)

\* ------------------------------------------------- statistics and criticals
NaN == -1

IsNaN(x) == x = NaN

\* a local name that no assignment has bound yet
Unbound == -2

UnboundP == Dy(0, -2)

StatVals == 1..MaxStat

CritVals == 0..(MaxStat + 1)

\* +inf, above every statistic and every finite critical value
Inf == MaxStat + 2

\* Python's a < b, a > b and a == b on floats
Lt(a, b) == ~IsNaN(a) /\ ~IsNaN(b) /\ a < b

Gt(a, b) == ~IsNaN(a) /\ ~IsNaN(b) /\ a > b

Eq(a, b) == ~IsNaN(a) /\ ~IsNaN(b) /\ a = b

\* what chi2.sf and f.sf can return for a statistic that is a number
PVals == {Dy(1, 1), Dy(1, 0), Dy(10, 0)}

\* ------------------------------------------------------------------ state
VARIABLES
    test, alpha, iters, order, alt,   \* the arguments of the call
    nj,                               \* res['n']: the size of each category
    meanj, varj,                      \* res['mean'], res['var'] as integers
    df1, df2,                         \* the degrees of freedom
    bound,                            \* the intermediates assigned so far
    flagsRead,                        \* which of iters, order, alt were read
    built,                            \* the assembly sites that built `out`
    pc, err,                          \* position in the body; the exception raised
    comment, chi2Cochran, chi2Stat, Fstat, J, Jcrit, chi2Crit,
    zCrit, cCrit,                     \* quantiles, each held as its upper-tail level
    pLow, pHigh, pVal, nIter, reject, out

vars == <<test, alpha, iters, order, alt, nj, meanj, varj, df1, df2, bound,
          flagsRead, built, pc, err, comment, chi2Cochran,
          chi2Stat, Fstat, J, Jcrit, chi2Crit, zCrit, cCrit, pLow, pHigh, pVal,
          nIter, reject, out>>

args == <<test, alpha, iters, order, alt, nj, meanj, varj>>

shared == <<df1, df2, bound, flagsRead, built>>

quantiles == <<zCrit, cCrit>>

locals == <<comment, chi2Cochran, chi2Stat, Fstat, J, Jcrit, chi2Crit, pLow, pHigh,
            pVal, nIter, reject, out>>

\* the significance levels a caller passes: 0.05, 0.10, and 2.0 (which is
\* not a probability)
AlphaVals == {Dy(1, 0), Dy(2, 0), Dy(40, 0)}

\* 0, 1, 2 are the documented orders; 3 is not
OrderVals == 0..3

\* category sizes, smallest first (every formula is a sum over the categories)
GroupSizes == {s \in [1..NumGroups -> 1..MaxN] :
                 \A i \in 1..(NumGroups - 1) : s[i] <= s[i + 1]}

k == Len(nj)

NoOut == [cols |-> <<>>, statistic |-> Unbound, pvalue |-> UnboundP,
          Jcritical |-> Unbound, reject |-> FALSE, test |-> "", comment |-> ""]

\* pd.DataFrame([[stat, df1, pVal, reject]], columns=[..., "p-value", ...])
PTable(stat, withDf2, p, rej) ==
    [cols |-> IF withDf2
              THEN <<"statistic", "df1", "df2", "p-value", "reject H0">>
              ELSE <<"statistic", "df1", "p-value", "reject H0">>,
     statistic |-> stat, pvalue |-> p, Jcritical |-> Unbound, reject |-> rej,
     test |-> "", comment |-> ""]

\* pd.DataFrame([[J, df1, Jcrit, reject]], columns=[..., "J-critical", ...])
CritTable(stat, crit, rej) ==
    [cols |-> <<"statistic", "df1", "J-critical", "reject H0">>,
     statistic |-> stat, pvalue |-> UnboundP, Jcritical |-> crit, reject |-> rej,
     test |-> "", comment |-> ""]

Init ==
    /\ test \in TestVals
    /\ alpha \in AlphaVals
    /\ iters \in BOOLEAN
    /\ order \in OrderVals
    /\ alt \in BOOLEAN
    /\ nj \in GroupSizes
    /\ meanj = <<>>
    /\ varj = <<>>
    /\ df1 = Unbound
    /\ df2 = Unbound
    /\ bound = {}
    /\ flagsRead = {}
    /\ built = {}
    /\ pc = "start"
    /\ err = "none"
    /\ comment = "None"
    /\ chi2Cochran = Unbound
    /\ chi2Stat = Unbound
    /\ Fstat = Unbound
    /\ J = Unbound
    /\ Jcrit = Unbound
    /\ chi2Crit = Unbound
    /\ zCrit = UnboundP
    /\ cCrit = UnboundP
    /\ pLow = UnboundP
    /\ pHigh = UnboundP
    /\ pVal = UnboundP
    /\ nIter = Unbound
    /\ reject = FALSE
    /\ out = NoOut

\* ------------------------------------------------ what the data decides
\* groupby(...).var() of a category with one observation is NaN (line 391)
varNaN == \E j \in 1..k : nj[j] = 1

\* n = sum(res['n']) (line 432)
RECURSIVE SumTo(_, _)
SumTo(s, i) == IF i = 0 THEN 0 ELSE s[i] + SumTo(s, i - 1)

n == SumTo(nj, k)

\* The values the statistic of `t` can take for these category sizes.  A sum
\* over a column that holds NaN is NaN.
\*   fisher         reads no per-category variance; ssw/df2 is 0/0 when n = k
\*   scott-smith    ((n_j - 3)/(n_j - 1))**0.5 is NaN for n_j <= 2
\*   hartung-...    with alt, phi = (n_j - 1)/(n_j - 3): every weight is 0
\*                  when every n_j = 3 (h = 0/0); weights of n_j = 2 are
\*                  negative and can cancel those of n_j >= 4
StatChoices(t) ==
    CASE t = "fisher" -> IF n = k THEN {NaN} ELSE StatVals
      [] t = "scott-smith" ->
            IF \E j \in 1..k : nj[j] <= 2 THEN {NaN} ELSE StatVals
      [] t = "hartung-agac-makabi" ->
            IF varNaN \/ (alt /\ \A j \in 1..k : nj[j] = 3) THEN {NaN}
            ELSE IF alt /\ (\E j \in 1..k : nj[j] = 2) /\ (\E j \in 1..k : nj[j] >= 4)
                 THEN StatVals \cup {NaN}
                 ELSE StatVals
      [] OTHER -> IF varNaN THEN {NaN} ELSE StatVals

\* chi2.sf(x, df) and f.sf(x, df1, df2)
SfChoices(x) == IF IsNaN(x) THEN {NaNP} ELSE PVals

\* NormalDist().inv_cdf(p) raises StatisticsError unless 0.0 < p < 1.0; here
\* p = 1 - a/2, which is <= 0 for a >= 2 and is 1.0 once a/2 <= 2^-54
InvCdfRaises(a) == ~(~RoundsToOne(Half(a)) /\ PLt(a, Dy(40, 0)))

\* NormalDist().inv_cdf(1 - a/2), held as the level a it is the quantile of
InvCdf(a) == a

\* chi2.ppf(1 - a, df), held as the level a it is the quantile of; NaN
\* unless 0 <= 1 - a <= 1, and +inf when 1 - a is 1.0
Ppf(a) == IF PLt(a, Dy(0, 0)) \/ PLt(Dy(20, 0), a) THEN NaNP
          ELSE IF RoundsToOne(a) THEN InfP
          ELSE a

\* the James branch taken for `order`: 0, 1, or the else-branch (line 561)
SecondOrder == order # 0 /\ order # 1

\* lamb and the R sums of the second order divide by v = n_j - 2 unless alt
\* (lines 564-576): a category of two gives inf - inf
VZero == ~alt /\ \E j \in 1..k : nj[j] = 2

\* the values the formula for Jcrit (lines 527, 583-593) can give at cCrit = c.
\* At cCrit = +inf the first order gives +inf (lamb > 0); the second order
\* adds +inf (cCrit) and -inf (the term of R23 - 3*R22 + 3*R21 - R20, the sum
\* of (h - 1)^3/v^2 < 0), which is NaN.
JcritChoices(c) ==
    IF varNaN \/ PIsNaN(c) \/ (SecondOrder /\ VZero) THEN {NaN}
    ELSE IF c = InfP THEN (IF SecondOrder THEN {NaN} ELSE {Inf})
    ELSE CritVals

\* chi2.sf(chi2Stat, df1) once the Ozdemir-Kurt loop has run: chi2Crit is the
\* quantile of level zCrit, and sf is strictly decreasing
SfAfterLoop ==
    IF IsNaN(chi2Stat) THEN {NaNP}
    ELSE IF Eq(chi2Crit, chi2Stat) THEN {zCrit}
    ELSE {p \in PVals \cup {pLow, pVal, pHigh} :
            IF Lt(chi2Crit, chi2Stat) THEN PLt(p, zCrit) ELSE PLt(zCrit, p)}

\* the tests of the F-distribution block (line 645)
FTests == {"fisher", "box", "welch", "brown-forsythe", "mehrotra",
           "hartung-agac-makabi"}

\* the tests of the chi-square block (line 651)
Chi2Tests == {"cochran", "scott-smith", "alexander-govern", "ozdemir-kurt"}

\* the levels the model follows: short exponents or short numerators
Followed(p) == p.e <= MaxExp \/ p.m <= MaxMant

\* ------------------------------------------- the intermediates of a path
\* One block of the body: the tests it runs for, the intermediates it reads
\* and the ones it assigns.
Block(ts, r, w) == [tests |-> ts, reads |-> r, writes |-> w]

\* the tests of the weights block (line 403)
WeightTests == {"cochran", "welch", "james", "alexander-govern", "ozdemir-kurt",
                "hartung-agac-makabi"}

\* lines 398-481 in the order of the text
Blocks ==
    << Block({"fisher", "box", "cochran", "welch", "james", "brown-forsythe",
              "alexander-govern", "hartung-agac-makabi", "ozdemir-kurt"},
             {}, {"df1"}),                                        \* 399-400
       Block(WeightTests, {}, {"h", "yw", "chi2Cochran"}),        \* 403-418
       Block({"cochran"}, {"chi2Cochran"}, {"chi2Stat"}),         \* 420-421
       Block({"welch", "james", "hartung-agac-makabi"},
             {"h"}, {"lamb"}),                                    \* 424-425
       Block({"welch", "hartung-agac-makabi"},
             {"chi2Cochran", "lamb"}, {"Fstat", "df2"}),          \* 426-428
       Block({"fisher", "box", "scott-smith", "brown-forsythe",
              "alexander-govern", "mehrotra", "ozdemir-kurt"},
             {}, {"n", "mean"}),                                  \* 431-433
       Block({"fisher", "box"},
             {"mean", "n", "df1"}, {"df2", "Fstat"}),             \* 436-440
       Block({"box"}, {"n", "Fstat"}, {"Fstat", "df1", "df2"}),   \* 442-446
       Block({"ozdemir-kurt", "alexander-govern"},
             {"yw"}, {"mean"}),                                   \* 450-451
       Block({"scott-smith", "alexander-govern", "ozdemir-kurt"},
             {"mean"}, {"t"}),                                    \* 449, 452
       Block({"scott-smith"}, {"t"}, {"chi2Stat", "df1"}),        \* 455-457
       Block({"brown-forsythe", "mehrotra"},
             {"mean", "n"}, {"Fstat", "df2"}),                    \* 460-462
       Block({"mehrotra"}, {"n"}, {"df1"}),                       \* 464-465
       Block({"alexander-govern"}, {"t"}, {"chi2Stat"}),          \* 468-473
       Block({"ozdemir-kurt"}, {"t"}, {"chi2Stat"}) >>            \* 476-481

\* the names bound after blocks i.. have run from the names in b, and whether
\* a block read a name that was not bound (NameError)
RECURSIVE AssignedBy(_, _)
AssignedBy(i, b) ==
    IF i > Len(Blocks) THEN [names |-> b, failed |-> FALSE]
    ELSE IF test \notin Blocks[i].tests THEN AssignedBy(i + 1, b)
    ELSE IF ~(Blocks[i].reads \subseteq b) THEN [names |-> b, failed |-> TRUE]
    ELSE AssignedBy(i + 1, b \cup Blocks[i].writes)

\* FlagsReadAtStart, with phi chosen by alt for every test of the weights block
FlagsReadAtStartAllWeights ==
    (IF test \in WeightTests THEN {"alt"} ELSE {})
      \cup (IF test = "ozdemir-kurt" THEN {"iters"} ELSE {})

\* the flags lines 398-483 read: alt where phi is chosen (line 406), iters
\* after the Ozdemir-Kurt statistic (line 483)
FlagsReadAtStart ==
    (IF test = "hartung-agac-makabi" THEN {"alt"} ELSE {})
      \cup (IF test = "ozdemir-kurt" THEN {"iters"} ELSE {})

\* df1 after line 465: k - 1 (line 400), k for Scott-Smith (line 457), the
\* value of lines 445 and 465 for Box and Mehrotra
Df1Choices ==
    CASE test \in {"box", "mehrotra"} -> IF varNaN THEN {NaN} ELSE 1..(k - 1)
      [] test = "scott-smith" -> {k}
      [] "df1" \in AssignedBy(1, {}).names -> {k - 1}
      [] OTHER -> {df1}

\* df2 after line 462: n - k for Fisher (line 439), the value of lines 428,
\* 446 and 462 for the other tests of the F distribution
Df2Choices ==
    CASE test = "fisher" -> {n - k}
      [] "df2" \in AssignedBy(1, {}).names -> IF varNaN THEN {NaN} ELSE 1..(n - 1)
      [] OTHER -> {df2}

\* an exception leaves the body
Raise(e) ==
    /\ pc' = "raised"
    /\ err' = e
    /\ UNCHANGED <<args, shared, quantiles, locals>>

\* ---------------------------------------------------------------- actions
\* lines 386-481: the summary per category, the shared intermediates and the
\* statistic of every test but James
ComputeStatistics ==
    /\ pc = "start"
    /\ UNCHANGED <<args, built, cCrit, J, Jcrit, chi2Crit, pLow, pHigh, pVal, nIter,
                   reject, out, comment>>
    /\ IF AssignedBy(1, {}).failed
       THEN /\ pc' = "raised"
            /\ err' = "NameError"
            /\ bound' = AssignedBy(1, {}).names
            /\ UNCHANGED <<df1, df2, flagsRead, chi2Cochran, chi2Stat, Fstat, zCrit>>
       ELSE IF test = "ozdemir-kurt" /\ InvCdfRaises(alpha)
       THEN /\ pc' = "raised"
            /\ err' = "StatisticsError"
            /\ bound' = AssignedBy(1, {}).names \ {"chi2Stat"}
            /\ df1' = k - 1
            /\ UNCHANGED <<df2, flagsRead, chi2Cochran, chi2Stat, Fstat, zCrit>>
       ELSE /\ err' = err
            /\ bound' = AssignedBy(1, {}).names
            /\ df1' \in Df1Choices
            /\ df2' \in Df2Choices
            /\ flagsRead' = FlagsReadAtStart
            /\ zCrit' = IF test = "ozdemir-kurt" THEN InvCdf(alpha) ELSE zCrit
            /\ \E s \in StatChoices(test) :
                 /\ chi2Cochran' = IF test \in {"cochran", "james"} THEN s
                                   ELSE chi2Cochran
                 /\ chi2Stat' = IF test \in Chi2Tests THEN s ELSE chi2Stat
                 /\ Fstat' = IF test \in FTests THEN s ELSE Fstat
            /\ pc' = IF test = "ozdemir-kurt" /\ iters THEN "okInit"
                     ELSE IF test = "james" THEN "james"
                     ELSE IF test \in FTests \cup Chi2Tests THEN "pvalues"
                     ELSE "assemble"

\* lines 483-490
OKIterInit ==
    /\ pc = "okInit"
    /\ comment' = "using iterations for approximating p-value"
    /\ pLow' = Dy(0, 0)
    /\ pHigh' = Dy(20, 0)
    /\ pVal' = Dy(1, 0)
    /\ nIter' = 1
    /\ pc' = "okWhile"
    /\ UNCHANGED <<args, shared, quantiles, err, chi2Cochran, chi2Stat, Fstat, J, Jcrit,
                   chi2Crit, reject, out>>

\* OKIterStep, with the statistic left as it was before the loop
OKIterStepFixedStat ==
    /\ pc = "okWhile"
    /\ UNCHANGED <<args, shared, cCrit, comment, chi2Cochran, Fstat, J, Jcrit, reject, out>>
    /\ IF InvCdfRaises(pVal)
       THEN /\ pc' = "raised"
            /\ err' = "StatisticsError"
            /\ UNCHANGED <<zCrit, chi2Stat, chi2Crit, pLow, pHigh, pVal, nIter>>
       ELSE /\ err' = err
            /\ zCrit' = alpha
            /\ \E s \in {chi2Stat}, c \in CritVals :
                 /\ chi2Stat' = s
                 /\ chi2Crit' = c
                 /\ IF Lt(c, s)
                    THEN /\ pHigh' = pVal
                         /\ pVal' = Mid(pLow, pVal)
                         /\ pLow' = pLow
                    ELSE IF Gt(c, s)
                    THEN /\ pLow' = pVal
                         /\ pVal' = Mid(pHigh, pVal)
                         /\ pHigh' = pHigh
                    ELSE UNCHANGED <<pLow, pHigh, pVal>>
                 /\ nIter' = nIter + 1
                 /\ pc' = IF Eq(c, s) \/ nIter' >= OKCap THEN "pvalues"
                          ELSE "okWhile"
            /\ Followed(pVal')

\* OKIterStep, bisecting towards the wrong end when critical < statistic
OKIterStepWrongEnd ==
    /\ pc = "okWhile"
    /\ UNCHANGED <<args, shared, cCrit, comment, chi2Cochran, Fstat, J, Jcrit, reject, out>>
    /\ IF InvCdfRaises(pVal)
       THEN /\ pc' = "raised"
            /\ err' = "StatisticsError"
            /\ UNCHANGED <<zCrit, chi2Stat, chi2Crit, pLow, pHigh, pVal, nIter>>
       ELSE /\ err' = err
            /\ zCrit' = InvCdf(pVal)
            /\ \E s \in (IF zCrit' = zCrit THEN {chi2Stat} ELSE StatChoices(test)),
                  c \in CritVals :
                 /\ chi2Stat' = s
                 /\ chi2Crit' = c
                 /\ IF Lt(c, s)
                    THEN /\ pHigh' = pVal
                         /\ pVal' = Mid(pHigh, pVal)
                         /\ pLow' = pLow
                    ELSE IF Gt(c, s)
                    THEN /\ pLow' = pVal
                         /\ pVal' = Mid(pHigh, pVal)
                         /\ pHigh' = pHigh
                    ELSE UNCHANGED <<pLow, pHigh, pVal>>
                 /\ nIter' = nIter + 1
                 /\ pc' = IF Eq(c, s) \/ nIter' >= OKCap THEN "pvalues"
                          ELSE "okWhile"
            /\ Followed(pVal')

\* lines 492-510: one pass of the Ozdemir-Kurt loop; inv_cdf (line 493) is
\* the first call of the pass
OKIterStep ==
    /\ pc = "okWhile"
    /\ UNCHANGED <<args, shared, cCrit, comment, chi2Cochran, Fstat, J, Jcrit, reject, out>>
    /\ IF InvCdfRaises(pVal)
       THEN /\ pc' = "raised"
            /\ err' = "StatisticsError"
            /\ UNCHANGED <<zCrit, chi2Stat, chi2Crit, pLow, pHigh, pVal, nIter>>
       ELSE /\ err' = err
            /\ zCrit' = InvCdf(pVal)
            /\ \E s \in (IF zCrit' = zCrit THEN {chi2Stat} ELSE StatChoices(test)),
                  c \in CritVals :
                 /\ chi2Stat' = s
                 /\ chi2Crit' = c
                 /\ IF Lt(c, s)
                    THEN /\ pHigh' = pVal
                         /\ pVal' = Mid(pLow, pVal)
                         /\ pLow' = pLow
                    ELSE IF Gt(c, s)
                    THEN /\ pLow' = pVal
                         /\ pVal' = Mid(pHigh, pVal)
                         /\ pHigh' = pHigh
                    ELSE UNCHANGED <<pLow, pHigh, pVal>>
                 /\ nIter' = nIter + 1
                 /\ pc' = IF Eq(c, s) \/ nIter' >= OKCap THEN "pvalues"
                          ELSE "okWhile"
            /\ Followed(pVal')

\* lines 513-521: James, order 0
JamesOrder0 ==
    /\ pc = "james"
    /\ order = 0
    /\ IF ~({"chi2Cochran", "df1"} \subseteq bound)
       THEN Raise("NameError")
       ELSE /\ J' = chi2Cochran
            /\ chi2Stat' = J'
            /\ pVal' \in SfChoices(J')
            /\ reject' = PLt(pVal', alpha)
            /\ comment' = "for large category sizes"
            /\ out' = PTable(J', FALSE, pVal', reject')
            /\ pc' = "assemble"
            /\ UNCHANGED <<args, df1, df2, quantiles, err, chi2Cochran, Fstat, Jcrit,
                           chi2Crit, pLow, pHigh, nIter>>
            /\ flagsRead' = flagsRead \cup {"order"}
            /\ built' = built \cup {"James"}
            /\ bound' = bound \cup {"out"}

\* James1Crit, with the quantile taken at 0.05 whatever alpha is
James1CritFixedLevel ==
    /\ pc = "james"
    /\ order = 1
    /\ IF ~({"chi2Cochran", "df1", "lamb"} \subseteq bound)
       THEN Raise("NameError")
       ELSE /\ J' = chi2Cochran
            /\ cCrit' = Ppf(Dy(1, 0))
            /\ Jcrit' \in JcritChoices(cCrit')
            /\ pc' = IF iters THEN "j1Init" ELSE "j1NonIter"
            /\ UNCHANGED <<args, df1, df2, bound, built, zCrit, err, comment,
                           chi2Cochran, chi2Stat, Fstat, chi2Crit, pLow, pHigh, pVal,
                           nIter, reject, out>>
            /\ flagsRead' = flagsRead \cup {"order", "iters"}

\* lines 513-514 and 523-527: James, order 1, the critical value at alpha
James1Crit ==
    /\ pc = "james"
    /\ order = 1
    /\ IF ~({"chi2Cochran", "df1", "lamb"} \subseteq bound)
       THEN Raise("NameError")
       ELSE /\ J' = chi2Cochran
            /\ cCrit' = Ppf(alpha)
            /\ Jcrit' \in JcritChoices(cCrit')
            /\ pc' = IF iters THEN "j1Init" ELSE "j1NonIter"
            /\ UNCHANGED <<args, df1, df2, bound, built, zCrit, err, comment,
                           chi2Cochran, chi2Stat, Fstat, chi2Crit, pLow, pHigh, pVal,
                           nIter, reject, out>>
            /\ flagsRead' = flagsRead \cup {"order", "iters"}

\* lines 529-535
James1IterInit ==
    /\ pc = "j1Init"
    /\ comment' = "first-order with iterations for p-value approximation"
    /\ pLow' = Dy(0, 0)
    /\ pHigh' = Dy(20, 0)
    /\ pVal' = Dy(1, 0)
    /\ nIter' = 1
    /\ pc' = "j1While"
    /\ UNCHANGED <<args, shared, quantiles, err, chi2Cochran, chi2Stat, Fstat, J, Jcrit,
                   chi2Crit, reject, out>>

\* James1IterStep, moving the wrong end of the bracket
James1IterStepWrongSide ==
    /\ pc = "j1While"
    /\ cCrit' = Ppf(pVal)
    /\ \E c \in (IF cCrit' = cCrit THEN {Jcrit} ELSE JcritChoices(cCrit')) :
         /\ Jcrit' = c
         /\ IF Lt(c, J)
            THEN /\ pLow' = pVal
                 /\ pVal' = Mid(pHigh, pVal)
                 /\ pHigh' = pHigh
            ELSE IF Gt(c, J)
            THEN /\ pHigh' = pVal
                 /\ pVal' = Mid(pLow, pVal)
                 /\ pLow' = pLow
            ELSE UNCHANGED <<pLow, pHigh, pVal>>
         /\ nIter' = nIter + 1
         /\ pc' = IF Eq(c, J) \/ nIter' >= J1Cap THEN "j1Out" ELSE "j1While"
    /\ Followed(pVal')
    /\ UNCHANGED <<args, shared, zCrit, err, comment, chi2Cochran, chi2Stat, Fstat, J,
                   chi2Crit, reject, out>>

\* James1IterStep, with the cap tested by > instead of >=
James1IterStepLateCap ==
    /\ pc = "j1While"
    /\ cCrit' = Ppf(pVal)
    /\ \E c \in (IF cCrit' = cCrit THEN {Jcrit} ELSE JcritChoices(cCrit')) :
         /\ Jcrit' = c
         /\ IF Lt(c, J)
            THEN /\ pHigh' = pVal
                 /\ pVal' = Mid(pLow, pVal)
                 /\ pLow' = pLow
            ELSE IF Gt(c, J)
            THEN /\ pLow' = pVal
                 /\ pVal' = Mid(pHigh, pVal)
                 /\ pHigh' = pHigh
            ELSE UNCHANGED <<pLow, pHigh, pVal>>
         /\ nIter' = nIter + 1
         /\ pc' = IF Eq(c, J) \/ nIter' > J1Cap THEN "j1Out" ELSE "j1While"
    /\ Followed(pVal')
    /\ UNCHANGED <<args, shared, zCrit, err, comment, chi2Cochran, chi2Stat, Fstat, J,
                   chi2Crit, reject, out>>

\* lines 537-550: one pass of the first-order loop
James1IterStep ==
    /\ pc = "j1While"
    /\ cCrit' = Ppf(pVal)
    /\ \E c \in (IF cCrit' = cCrit THEN {Jcrit} ELSE JcritChoices(cCrit')) :
         /\ Jcrit' = c
         /\ IF Lt(c, J)
            THEN /\ pHigh' = pVal
                 /\ pVal' = Mid(pLow, pVal)
                 /\ pLow' = pLow
            ELSE IF Gt(c, J)
            THEN /\ pLow' = pVal
                 /\ pVal' = Mid(pHigh, pVal)
                 /\ pHigh' = pHigh
            ELSE UNCHANGED <<pLow, pHigh, pVal>>
         /\ nIter' = nIter + 1
         /\ pc' = IF Eq(c, J) \/ nIter' >= J1Cap THEN "j1Out" ELSE "j1While"
    /\ Followed(pVal')
    /\ UNCHANGED <<args, shared, zCrit, err, comment, chi2Cochran, chi2Stat, Fstat, J,
                   chi2Crit, reject, out>>

\* lines 552-553
James1IterOut ==
    /\ pc = "j1Out"
    /\ reject' = PLt(pVal, alpha)
    /\ out' = PTable(J, FALSE, pVal, reject')
    /\ pc' = "assemble"
    /\ UNCHANGED <<args, df1, df2, flagsRead, quantiles, err, comment, chi2Cochran,
                   chi2Stat, Fstat, J, Jcrit, chi2Crit, pLow, pHigh, pVal, nIter>>
    /\ built' = built \cup {"James"}
    /\ bound' = bound \cup {"out"}

\* lines 555-558
James1NonIter ==
    /\ pc = "j1NonIter"
    /\ comment' = "first-order"
    /\ reject' = Gt(J, Jcrit)
    /\ out' = CritTable(J, Jcrit, reject')
    /\ pc' = "assemble"
    /\ UNCHANGED <<args, df1, df2, flagsRead, quantiles, err, chi2Cochran, chi2Stat,
                   Fstat, J, Jcrit, chi2Crit, pLow, pHigh, pVal, nIter>>
    /\ built' = built \cup {"James"}
    /\ bound' = bound \cup {"out"}

\* lines 513-514, 523-524 and 561-593: James, any other order, the critical
\* value at alpha
James2Crit ==
    /\ pc = "james"
    /\ SecondOrder
    /\ IF ~({"chi2Cochran", "df1", "lamb", "h"} \subseteq bound)
       THEN Raise("NameError")
       ELSE /\ J' = chi2Cochran
            /\ cCrit' = Ppf(alpha)
            /\ comment' = IF ~alt THEN "second order"
                          ELSE "second order with alternative v (v = n -1)"
            /\ Jcrit' \in JcritChoices(cCrit')
            /\ pc' = IF iters THEN "j2Init" ELSE "j2NonIter"
            /\ UNCHANGED <<args, df1, df2, bound, built, zCrit, err, chi2Cochran,
                           chi2Stat, Fstat, chi2Crit, pLow, pHigh, pVal, nIter, reject,
                           out>>
            /\ flagsRead' = flagsRead \cup {"order", "alt", "iters"}

\* lines 595-601
James2IterInit ==
    /\ pc = "j2Init"
    /\ comment' = comment \o ", using iterations for p-value approximation"
    /\ pLow' = Dy(0, 0)
    /\ pHigh' = Dy(20, 0)
    /\ pVal' = Dy(1, 0)
    /\ nIter' = 1
    /\ pc' = "j2While"
    /\ UNCHANGED <<args, shared, quantiles, err, chi2Cochran, chi2Stat, Fstat, J, Jcrit,
                   chi2Crit, reject, out>>

\* James2IterStep, moving pVal below the new pLow when critical > statistic
James2IterStepWrongEnd ==
    /\ pc = "j2While"
    /\ cCrit' = Ppf(pVal)
    /\ \E c \in (IF cCrit' = cCrit THEN {Jcrit} ELSE JcritChoices(cCrit')) :
         /\ Jcrit' = c
         /\ IF Lt(c, J)
            THEN /\ pHigh' = pVal
                 /\ pVal' = Mid(pLow, pVal)
                 /\ pLow' = pLow
            ELSE IF Gt(c, J)
            THEN /\ pLow' = pVal
                 /\ pVal' = Mid(pLow, pVal)
                 /\ pHigh' = pHigh
            ELSE UNCHANGED <<pLow, pHigh, pVal>>
         /\ nIter' = nIter + 1
         /\ pc' = IF Eq(c, J) \/ nIter' >= J2Cap THEN "j2Out" ELSE "j2While"
    /\ Followed(pVal')
    /\ UNCHANGED <<args, shared, zCrit, err, comment, chi2Cochran, chi2Stat, Fstat, J,
                   chi2Crit, reject, out>>

\* lines 603-635: one pass of the second-order loop
James2IterStep ==
    /\ pc = "j2While"
    /\ cCrit' = Ppf(pVal)
    /\ \E c \in (IF cCrit' = cCrit THEN {Jcrit} ELSE JcritChoices(cCrit')) :
         /\ Jcrit' = c
         /\ IF Lt(c, J)
            THEN /\ pHigh' = pVal
                 /\ pVal' = Mid(pLow, pVal)
                 /\ pLow' = pLow
            ELSE IF Gt(c, J)
            THEN /\ pLow' = pVal
                 /\ pVal' = Mid(pHigh, pVal)
                 /\ pHigh' = pHigh
            ELSE UNCHANGED <<pLow, pHigh, pVal>>
         /\ nIter' = nIter + 1
         /\ pc' = IF Eq(c, J) \/ nIter' >= J2Cap THEN "j2Out" ELSE "j2While"
    /\ Followed(pVal')
    /\ UNCHANGED <<args, shared, zCrit, err, comment, chi2Cochran, chi2Stat, Fstat, J,
                   chi2Crit, reject, out>>

\* lines 637-638
James2IterOut ==
    /\ pc = "j2Out"
    /\ reject' = PLt(pVal, alpha)
    /\ out' = PTable(J, FALSE, pVal, reject')
    /\ pc' = "assemble"
    /\ UNCHANGED <<args, df1, df2, flagsRead, quantiles, err, comment, chi2Cochran,
                   chi2Stat, Fstat, J, Jcrit, chi2Crit, pLow, pHigh, pVal, nIter>>
    /\ built' = built \cup {"James"}
    /\ bound' = bound \cup {"out"}

\* lines 640-642
James2NonIter ==
    /\ pc = "j2NonIter"
    /\ reject' = Gt(J, Jcrit)
    /\ out' = CritTable(J, Jcrit, reject')
    /\ pc' = "assemble"
    /\ UNCHANGED <<args, df1, df2, flagsRead, quantiles, err, comment, chi2Cochran,
                   chi2Stat, Fstat, J, Jcrit, chi2Crit, pLow, pHigh, pVal, nIter>>
    /\ built' = built \cup {"James"}
    /\ bound' = bound \cup {"out"}

\* FPValues, rejecting when pVal <= alpha
FPValuesNonStrict ==
    /\ pc = "pvalues"
    /\ test \in FTests
    /\ IF ~({"Fstat", "df1", "df2"} \subseteq bound)
       THEN Raise("NameError")
       ELSE /\ pVal' \in SfChoices(Fstat)
            /\ reject' = ~PLt(alpha, pVal')
            /\ out' = PTable(Fstat, TRUE, pVal', reject')
            /\ pc' = "assemble"
            /\ UNCHANGED <<args, df1, df2, flagsRead, quantiles, err, comment,
                           chi2Cochran, chi2Stat, Fstat, J, Jcrit, chi2Crit, pLow,
                           pHigh, nIter>>
            /\ built' = built \cup {"F"}
            /\ bound' = bound \cup {"out"}

\* lines 644-648: the p-value of the F-distribution tests
FPValues ==
    /\ pc = "pvalues"
    /\ test \in FTests
    /\ IF ~({"Fstat", "df1", "df2"} \subseteq bound)
       THEN Raise("NameError")
       ELSE /\ pVal' \in SfChoices(Fstat)
            /\ reject' = PLt(pVal', alpha)
            /\ out' = PTable(Fstat, TRUE, pVal', reject')
            /\ pc' = "assemble"
            /\ UNCHANGED <<args, df1, df2, flagsRead, quantiles, err, comment,
                           chi2Cochran, chi2Stat, Fstat, J, Jcrit, chi2Crit, pLow,
                           pHigh, nIter>>
            /\ built' = built \cup {"F"}
            /\ bound' = bound \cup {"out"}

\* lines 650-654: the p-value of the chi-square tests
Chi2PValues ==
    /\ pc = "pvalues"
    /\ test \in Chi2Tests
    /\ IF ~({"chi2Stat", "df1"} \subseteq bound)
       THEN Raise("NameError")
       ELSE /\ pVal' \in (IF nIter = Unbound THEN SfChoices(chi2Stat) ELSE SfAfterLoop)
            /\ reject' = PLt(pVal', alpha)
            /\ out' = PTable(chi2Stat, FALSE, pVal', reject')
            /\ pc' = "assemble"
            /\ UNCHANGED <<args, df1, df2, flagsRead, quantiles, err, comment,
                           chi2Cochran, chi2Stat, Fstat, J, Jcrit, chi2Crit, pLow,
                           pHigh, nIter>>
            /\ built' = built \cup {"chi-square"}
            /\ bound' = bound \cup {"out"}

\* lines 656-661: names[test] raises KeyError for a test that is no key
Assemble ==
    /\ pc = "assemble"
    /\ IF test \notin DOMAIN names
       THEN /\ pc' = "raised"
            /\ err' = "KeyError"
            /\ out' = out
       ELSE IF "out" \notin bound
       THEN /\ pc' = "raised"
            /\ err' = "NameError"
            /\ out' = out
       ELSE /\ out' = [out EXCEPT !.test = names[test], !.comment = comment]
            /\ pc' = "returned"
            /\ err' = err
    /\ UNCHANGED <<args, shared, quantiles, comment, chi2Cochran, chi2Stat, Fstat, J,
                   Jcrit, chi2Crit, pLow, pHigh, pVal, nIter, reject>>

Next ==
    \/ ComputeStatistics
    \/ OKIterInit
    \/ OKIterStep
    \/ JamesOrder0
    \/ James1Crit
    \/ James1IterInit
    \/ James1IterStep
    \/ James1IterOut
    \/ James1NonIter
    \/ James2Crit
    \/ James2IterInit
    \/ James2IterStep
    \/ James2IterOut
    \/ James2NonIter
    \/ FPValues
    \/ Chi2PValues
    \/ Assemble

Spec == Init /\ [][Next]_vars

\* ------------------------------------------- the F statistics, evaluated
\* Exact rationals [num, den], den > 0, in lowest terms.
RECURSIVE Gcd(_, _)
Gcd(a, b) == IF b = 0 THEN a ELSE Gcd(b, a % b)

Abs(a) == IF a < 0 THEN -a ELSE a

Rat(p, q) ==
    LET sp == IF q < 0 THEN -p ELSE p
        sq == Abs(q)
        g == Gcd(Abs(sp), sq)
    IN [num |-> sp \div g, den |-> sq \div g]

RatInt(a) == [num |-> a, den |-> 1]

RatAdd(a, b) == Rat(a.num * b.den + b.num * a.den, a.den * b.den)

RatSub(a, b) == Rat(a.num * b.den - b.num * a.den, a.den * b.den)

RatMul(a, b) == Rat(a.num * b.num, a.den * b.den)

RatDiv(a, b) == Rat(a.num * b.den, a.den * b.num)

RatSq(a) == RatMul(a, a)

\* Python's sum() over a column
RECURSIVE RatSum(_, _)
RatSum(f, i) == IF i = 0 THEN RatInt(0) ELSE RatAdd(f[i], RatSum(f, i - 1))

\* the summaries the evaluation is checked on: categories of two or more
\* observations, integer means, positive integer variances
\* (one category more than the flow specification follows: with two
\* categories the first degrees of freedom of Box and Mehrotra are always 1)
CatsF == NumGroups + 1

SizesF == {s \in [1..CatsF -> 2..MaxN] : \A i \in 1..(CatsF - 1) : s[i] <= s[i + 1]}

MeansF == [1..CatsF -> 0..MaxMean]

VarsF == [1..CatsF -> 1..MaxVar]

\* the rows of res come in the order of the category labels (groupby, line
\* 388) and every formula below is a sum over the rows, so one order of the
\* rows stands for all: by size, then mean, then variance
RowsOrdered(s, m, v) ==
    \A i \in 1..(CatsF - 1) :
        \/ s[i] < s[i + 1]
        \/ s[i] = s[i + 1] /\ m[i] < m[i + 1]
        \/ s[i] = s[i + 1] /\ m[i] = m[i + 1] /\ v[i] <= v[i + 1]

\* line 433: mean = sum(res['n']*res['mean'])/n
mean == RatDiv(RatSum([j \in 1..k |-> RatInt(nj[j] * meanj[j])], k), RatInt(n))

\* lines 437, 461: sum(res['n']*(res['mean'] - mean)**2)
ssb ==
    LET m == mean
    IN RatSum([j \in 1..k |->
                 RatMul(RatInt(nj[j]), RatSq(RatSub(RatInt(meanj[j]), m)))], k)

\* variance(data[scores]): the squared deviations of all the scores from
\* their mean, within and between the categories, over n - 1
variance ==
    LET m == mean
    IN RatDiv(RatSum([j \in 1..k |->
                        RatAdd(RatInt((nj[j] - 1) * varj[j]),
                               RatMul(RatInt(nj[j]),
                                      RatSq(RatSub(RatInt(meanj[j]), m))))], k),
              RatInt(n - 1))

\* line 438
ssw == RatSub(RatMul(variance, RatInt(n - 1)), ssb)

\* line 440, with df1 = k - 1 (line 400) and df2 = n - k (line 439)
FisherF == RatDiv(RatDiv(ssb, RatInt(k - 1)), RatDiv(ssw, RatInt(n - k)))

\* line 443, with the factor (n - k)/(n*k) in place of (n - k)/(n*(k - 1))
cBoxOverK ==
    RatDiv(RatMul(Rat(n - k, n * k),
                  RatSum([j \in 1..k |-> RatInt((n - nj[j]) * varj[j])], k)),
           RatSum([j \in 1..k |-> RatInt((nj[j] - 1) * varj[j])], k))

\* line 443
cBox ==
    RatDiv(RatMul(Rat(n - k, n * (k - 1)),
                  RatSum([j \in 1..k |-> RatInt((n - nj[j]) * varj[j])], k)),
           RatSum([j \in 1..k |-> RatInt((nj[j] - 1) * varj[j])], k))

\* line 444
BoxF == RatDiv(FisherF, cBox)

\* line 445
BoxDf1 ==
    RatDiv(RatSq(RatSum([j \in 1..k |-> RatInt((n - nj[j]) * varj[j])], k)),
           RatAdd(RatSq(RatSum([j \in 1..k |-> RatInt(nj[j] * varj[j])], k)),
                  RatMul(RatInt(n),
                         RatSum([j \in 1..k |->
                                   RatInt((n - 2 * nj[j]) * varj[j] * varj[j])], k))))

\* line 446
BoxDf2 ==
    RatDiv(RatSq(RatSum([j \in 1..k |-> RatInt((nj[j] - 1) * varj[j])], k)),
           RatSum([j \in 1..k |-> RatInt((nj[j] - 1) * varj[j] * varj[j])], k))

\* sum((1 - res["n"]/n)*res["var"]), lines 461 and 462
sumOneMinus ==
    RatSum([j \in 1..k |->
              RatMul(RatSub(RatInt(1), Rat(nj[j], n)), RatInt(varj[j]))], k)

\* line 461
BrownForsytheF == RatDiv(ssb, sumOneMinus)

\* line 462
BrownForsytheDf2 ==
    RatDiv(RatSq(sumOneMinus),
           RatSum([j \in 1..k |->
                     RatDiv(RatMul(RatSq(RatSub(RatInt(1), Rat(nj[j], n))),
                                   RatInt(varj[j] * varj[j])),
                            RatInt(nj[j] - 1))], k))

\* sum(res['n']*res['var'])/n, line 465
sumNVarOverN == RatDiv(RatSum([j \in 1..k |-> RatInt(nj[j] * varj[j])], k), RatInt(n))

\* line 465
MehrotraDf1 ==
    RatDiv(RatSq(RatSub(RatSum([j \in 1..k |-> RatInt(varj[j])], k), sumNVarOverN)),
           RatSub(RatAdd(RatSum([j \in 1..k |-> RatInt(varj[j] * varj[j])], k),
                         RatSq(sumNVarOverN)),
                  RatDiv(RatMul(RatInt(2),
                                RatSum([j \in 1..k |->
                                          RatInt(nj[j] * varj[j] * varj[j])], k)),
                         RatInt(n))))

\* a call of Box, Brown-Forsythe or Mehrotra, whose F statistic is rational
\* in the summaries, on every summary of the bounded sets
InitF ==
    /\ test \in {"box", "brown-forsythe", "mehrotra"}
    /\ alpha = Dy(1, 0)
    /\ iters = FALSE
    /\ order = 2
    /\ alt = FALSE
    /\ nj \in SizesF
    /\ meanj \in MeansF
    /\ varj \in VarsF
    /\ RowsOrdered(nj, meanj, varj)
    /\ df1 = Unbound
    /\ df2 = Unbound
    /\ bound = {}
    /\ flagsRead = {}
    /\ built = {}
    /\ pc = "start"
    /\ err = "none"
    /\ comment = "None"
    /\ chi2Cochran = Unbound
    /\ chi2Stat = Unbound
    /\ Fstat = Unbound
    /\ J = Unbound
    /\ Jcrit = Unbound
    /\ chi2Crit = Unbound
    /\ zCrit = UnboundP
    /\ cCrit = UnboundP
    /\ pLow = UnboundP
    /\ pHigh = UnboundP
    /\ pVal = UnboundP
    /\ nIter = Unbound
    /\ reject = FALSE
    /\ out = NoOut

\* lines 399-400, 431-433, 436-446: Fisher and the Box correction
FisherBoxF ==
    /\ pc = "start"
    /\ test \in {"fisher", "box"}
    /\ Fstat' = IF test = "box" THEN BoxF ELSE FisherF
    /\ df1' = IF test = "box" THEN BoxDf1 ELSE RatInt(k - 1)
    /\ df2' = IF test = "box" THEN BoxDf2 ELSE RatInt(n - k)
    /\ bound' = {"df1", "n", "mean", "df2", "Fstat"}
    /\ pc' = "pvalues"
    /\ UNCHANGED <<args, flagsRead, built, quantiles, err, comment, chi2Cochran,
                   chi2Stat, J, Jcrit, chi2Crit, pLow, pHigh, pVal, nIter, reject, out>>

\* lines 399-400, 431-433, 460-465: Brown-Forsythe and Mehrotra
BrownForsytheMehrotraF ==
    /\ pc = "start"
    /\ test \in {"brown-forsythe", "mehrotra"}
    /\ Fstat' = BrownForsytheF
    /\ df1' = IF test = "mehrotra" THEN MehrotraDf1 ELSE RatInt(k - 1)
    /\ df2' = BrownForsytheDf2
    /\ bound' = {"df1", "n", "mean", "df2", "Fstat"}
    /\ pc' = "pvalues"
    /\ UNCHANGED <<args, flagsRead, built, quantiles, err, comment, chi2Cochran,
                   chi2Stat, J, Jcrit, chi2Crit, pLow, pHigh, pVal, nIter, reject, out>>

NextF == FisherBoxF \/ BrownForsytheMehrotraF

SpecF == InitF /\ [][NextF]_vars

\* ------------------------------------------------------------- properties
HasCol(c) == \E i \in DOMAIN out.cols : out.cols[i] = c

AlphaValid == PLt(Dy(0, 0), alpha) /\ PLt(alpha, Dy(20, 0))

\* the other arguments of a call are as the docstring asks
DataValid == ~varNaN

OrderValid == order \in {0, 1, 2}

\* the variants with a bisection: James of order 1 or 2, and Ozdemir-Kurt
Bisecting == (test = "james" /\ order \in {1, 2}) \/ test = "ozdemir-kurt"

\* a pass of one of the three loops is the only step enabled at these places
InLoop == pc \in {"okWhile", "j1While", "j2While"}

\* the statistic and the critical value a pass compares, once it has run
StatCompared == IF test = "ozdemir-kurt" THEN chi2Stat ELSE J

CritCompared == IF test = "ozdemir-kurt" THEN chi2Crit ELSE Jcrit

Cap == IF pc = "j1While" THEN J1Cap ELSE IF pc = "j2While" THEN J2Cap ELSE OKCap

\* C1: with iters=True, James of order 1 or 2 and Ozdemir-Kurt report in the
\* p-value column the pVal the bisection loop left, and reject is true exactly
\* when that pVal < alpha.  Stated of the step that builds the table (before
\* it pVal is what the loop left), for calls with alpha in (0,1).
C1_ReportsLoopPVal ==
    [][(out = NoOut /\ out' # NoOut /\ iters /\ Bisecting /\ AlphaValid)
         => (out'.pvalue = pVal /\ out'.reject = PLt(pVal, alpha))]_vars

C3_StepRule ==
    [][(InLoop /\ pc' # "raised") =>
         /\ Gt(CritCompared', StatCompared')
              => (pHigh' = pVal /\ pVal' = Mid(pLow, pVal) /\ pLow' = pLow)
         /\ Lt(CritCompared', StatCompared')
              => (pLow' = pVal /\ pVal' = Mid(pHigh, pVal) /\ pHigh' = pHigh)
         /\ Eq(CritCompared', StatCompared')
              => UNCHANGED <<pLow, pHigh, pVal>>]_vars

\* C3, as amended: in every pass of each loop, critical < statistic sets pHigh
\* to pVal and pVal to (pLow+pVal)/2; critical > statistic sets pLow to pVal
\* and pVal to (pHigh+pVal)/2; equality changes none of the three.
C3_Amended ==
    [][(InLoop /\ pc' # "raised") =>
         /\ Lt(CritCompared', StatCompared')
              => (pHigh' = pVal /\ pVal' = Mid(pLow, pVal) /\ pLow' = pLow)
         /\ Gt(CritCompared', StatCompared')
              => (pLow' = pVal /\ pVal' = Mid(pHigh, pVal) /\ pHigh' = pHigh)
         /\ Eq(CritCompared', StatCompared')
              => UNCHANGED <<pLow, pHigh, pVal>>]_vars

C3_Witness ==
    /\ pc = "j2While" /\ nIter = 3
    /\ pLow = Dy(1, 1) /\ pVal = Dy(3, 2) /\ pHigh = Dy(1, 0)

\* C4: every loop ends, within its cap.  The counter starts at 1 and a pass is
\* only ever started with the counter below the cap (500, 800 for the first
\* order); a pass that evaluates the critical value adds one to the counter
\* and the loop goes on exactly when critical = statistic is false and the
\* counter is still below the cap; the only other way out of a pass is the
\* exception of inv_cdf in the Ozdemir-Kurt loop, which ends the call.  Once a
\* loop is left, by equality or by the cap, the next step builds a table with
\* a p-value column and raises nothing.
C4_Terminates ==
    [][/\ InLoop =>
            /\ nIter >= 1 /\ nIter < Cap
            /\ \/ /\ nIter' = nIter + 1
                  /\ pc' # "raised"
                  /\ (pc' = pc) = ~(Eq(CritCompared', StatCompared') \/ nIter' >= Cap)
               \/ /\ pc = "okWhile" /\ pc' = "raised"
                  /\ nIter' = nIter
       /\ (nIter # Unbound /\ pc \in {"pvalues", "j1Out", "j2Out"})
            => /\ pc' # "raised"
               /\ \E i \in DOMAIN out'.cols : out'.cols[i] = "p-value"]_vars

C4_Witness ==
    /\ pc = "returned" /\ test = "james" /\ order = 2 /\ DataValid
    /\ nIter = J2Cap /\ ~Eq(Jcrit, J) /\ ~IsNaN(J)
    /\ HasCol("p-value") /\ out.pvalue = pVal

\* C5: from pLow=0, pHigh=1, pVal=0.05 every loop keeps pLow < pVal < pHigh
\* before and after every pass, in exact arithmetic, whatever the comparisons
\* give.
C5_Bracket ==
    (pLow # UnboundP /\ (test = "james" \/ pc \in {"okWhile", "pvalues"}))
      => (PLt(pLow, pVal) /\ PLt(pVal, pHigh))

C5_Witness ==
    /\ pc = "okWhile" /\ nIter >= 4
    /\ PLt(Dy(0, 0), pLow) /\ PLt(pHigh, Dy(1, 0))

\* C6: in every table, reject agrees with the values beside it: with a p-value
\* column reject = (p-value < alpha), with a critical-value column
\* reject = (statistic > critical value).
C6_RejectConsistent ==
    (out # NoOut) =>
        /\ HasCol("p-value") # HasCol("J-critical")
        /\ HasCol("p-value") => (out.reject = PLt(out.pvalue, alpha))
        /\ HasCol("J-critical") => (out.reject = Gt(out.statistic, out.Jcritical))

C6_Witness ==
    /\ pc = "returned" /\ test = "brown-forsythe"
    /\ out.reject /\ out.pvalue = Dy(1, 1)

\* C7: a table is returned exactly for the eleven identifiers the docstring
\* lists; any other identifier ends in an exception and no table.  Stated for
\* calls whose other arguments are valid.
C7_DocumentedTests ==
    (DataValid /\ AlphaValid /\ OrderValid) =>
        /\ (pc = "returned") => (test \in DocTests)
        /\ (pc = "raised") => (test \notin DocTests)
        /\ (test \notin DocTests) => (out = NoOut)

\* C8: a call with alpha outside (0,1) ends in an exception for every test;
\* no table with a reject decision is built or returned.  Stated for calls
\* whose other arguments are valid.
C8_AlphaChecked ==
    (~AlphaValid /\ DataValid /\ OrderValid /\ test \in DOMAIN names)
      => (out = NoOut /\ pc # "returned")

\* C9: a James call with an order outside {0,1,2} ends in an exception; no
\* table computed by one of the three orders is built or returned.  Stated
\* for calls whose other arguments are valid.
C9_OrderChecked ==
    (test = "james" /\ ~OrderValid /\ DataValid /\ AlphaValid)
      => (out = NoOut /\ pc # "returned")

\* C10: with a category of one observation the call ends in an exception for
\* every test; no table is built or returned.  Stated for calls whose other
\* arguments are valid.
C10_SingletonChecked ==
    (varNaN /\ AlphaValid /\ OrderValid /\ test \in DOMAIN names)
      => (out = NoOut /\ pc # "returned")

\* line 456: ((n_j - 3)/(n_j - 1))**0.5 takes the root of a negative number
NegativeRoot ==
    test = "scott-smith" /\ \E j \in 1..k : (nj[j] - 3) * (nj[j] - 1) < 0

\* a denominator of the selected path is zero: n_j - 3 in phi (line 407),
\* v = n_j - 2 in lamb and the R sums (lines 564-576)
ZeroDenominator ==
    \/ test = "hartung-agac-makabi" /\ alt /\ \E j \in 1..k : nj[j] - 3 = 0
    \/ test = "james" /\ SecondOrder /\ ~alt /\ \E j \in 1..k : nj[j] - 2 = 0

\* C11: with at least two categories, each of two or more observations, every
\* variant computes its statistic and its critical value without a zero
\* denominator and without the root of a negative number, so neither is NaN
\* in the table it returns.  Stated for implemented tests, alpha in (0,1) and
\* order in {0,1,2}.
C11_SizeTwoValid ==
    (pc = "returned" /\ k >= 2 /\ DataValid /\ AlphaValid /\ OrderValid)
      => /\ ~NegativeRoot
         /\ ~ZeroDenominator
         /\ ~IsNaN(out.statistic)
         /\ HasCol("J-critical") => ~IsNaN(out.Jcritical)

\* C12: during a search the statistic is fixed, only the critical value is
\* recomputed per pass, and the statistic reported with iters=True is the one
\* computed before the loop, which is what iters=False reports; for James of
\* order 1 and 2 and for Ozdemir-Kurt.
C12_StatisticFixed ==
    [][/\ (InLoop /\ pc' # "raised") => (StatCompared' = StatCompared)
       /\ (pc \in {"okInit", "j1Init", "j2Init"}) => (StatCompared' = StatCompared)
       /\ (Bisecting /\ out = NoOut /\ out' # NoOut)
            => (out'.statistic = StatCompared)]_vars

\* C12, as amended: for James of order 1 and 2 the statistic J is the Cochran
\* statistic of the data from the moment it is bound, no pass changes it, and
\* the table holds it with and without iters.  For Ozdemir-Kurt every pass
\* recomputes the statistic too, at the normal quantile of the current pVal:
\* it stays the same only when the quantile does, and the table holds the
\* statistic of the last pass.
C12_Amended ==
    [][/\ (test = "james" /\ J # Unbound)
            => (J = chi2Cochran /\ J' = J /\ chi2Cochran' = chi2Cochran)
       /\ (test = "james" /\ out = NoOut /\ out' # NoOut)
            => (out'.statistic = chi2Cochran)
       /\ (pc = "okWhile" /\ pc' # "raised")
            => /\ zCrit' = InvCdf(pVal)
               /\ (zCrit' = zCrit) => (chi2Stat' = chi2Stat)
       /\ (test = "ozdemir-kurt" /\ out = NoOut /\ out' # NoOut)
            => (out'.statistic = chi2Stat)]_vars

C12_Witness ==
    /\ pc = "returned" /\ test = "ozdemir-kurt" /\ iters /\ DataValid
    /\ alpha = Dy(1, 0) /\ zCrit = Dy(1, 1)
    /\ out.statistic = chi2Stat /\ chi2Stat = 2

\* C13: on every summary with two or more categories and positive variances,
\* the statistic the Box path computes (Fisher's F divided by c) is the value
\* the Brown-Forsythe and Mehrotra path computes, and the first degrees of
\* freedom of Box are those of Mehrotra, as exact rationals.
C13_SameStatistic ==
    (pc = "pvalues")
      => /\ (test = "box") => (Fstat = BrownForsytheF /\ df1 = MehrotraDf1)
         /\ (test \in {"brown-forsythe", "mehrotra"}) => (Fstat = BoxF)
         /\ (test = "mehrotra") => (df1 = BoxDf1)

C13_Witness ==
    /\ pc = "pvalues" /\ test = "box"
    /\ nj = <<2, 2, 3>> /\ meanj = <<0, 1, 0>> /\ varj = <<1, 2, 2>>
    /\ Fstat.num > 0 /\ Fstat # FisherF /\ df1 # RatInt(k - 1)

\* C14: a flag the call never read cannot change its result; iters is read
\* only by Ozdemir-Kurt and by James of order 1 or 2, alt only by
\* Hartung-Agac-Makabi and by James of order 2, order only by James (for the
\* documented orders 0, 1, 2).
C14_FlagsLocal ==
    OrderValid =>
      /\ ("iters" \in flagsRead)
           => (test = "ozdemir-kurt" \/ (test = "james" /\ order \in {1, 2}))
      /\ ("alt" \in flagsRead)
           => (test = "hartung-agac-makabi" \/ (test = "james" /\ order = 2))
      /\ ("order" \in flagsRead) => (test = "james")

\* C14 witness: James of order 0 returned with iters and alt set, and read
\* neither of them
C14_Witness ==
    /\ pc = "returned"
    /\ test = "james"
    /\ order = 0
    /\ iters
    /\ alt
    /\ flagsRead = {"order"}

\* Python's a <= b on levels that are numbers
PLe(a, b) == ~PIsNaN(a) /\ ~PIsNaN(b) /\ ~PLt(b, a)

\* levels p* in (0,1) at which the critical value may equal J: the multiples
\* of 0.05
PStarVals == {Dy(m, 0) : m \in 1..19}

\* whether a pass keeps p* depends only on where p* lies among pLow, pVal and
\* pHigh: the two midpoints stand for the levels strictly between them
PStarBetween == {Mid(pLow, pVal), Mid(pVal, pHigh)}

\* the comparison of this pass (lines 539-544, made at the level pVal) is
\* the one a critical value strictly decreasing in the level, equal to J at
\* ps, gives
MonotoneAt(ps) ==
    /\ Lt(Jcrit', J) <=> PLt(ps, pVal)
    /\ Gt(Jcrit', J) <=> PLt(pVal, ps)
    /\ Eq(Jcrit', J) <=> (ps = pVal)

\* C15: in the first-order loop of James, for every p* in (0,1): the bracket
\* set up before the loop contains p*, and every pass whose comparison is
\* that of a critical value strictly decreasing in the level and equal to J
\* at p* keeps pLow <= p* <= pHigh; pVal lies in the same bracket, so it
\* differs from p* by at most pHigh - pLow, and a pass that ends the loop on
\* equality ends it at pVal = p*.
C15_BracketHoldsRoot ==
    [][/\ (pc = "j1Init")
            => \A ps \in PStarVals : PLe(pLow', ps) /\ PLe(ps, pHigh')
       /\ (pc = "j1While")
            => \A ps \in PStarVals \cup PStarBetween :
                 (PLe(pLow, ps) /\ PLe(ps, pHigh) /\ MonotoneAt(ps))
                   => /\ PLe(pLow', ps) /\ PLe(ps, pHigh')
                      /\ PLe(pLow', pVal') /\ PLe(pVal', pHigh')
                      /\ Eq(Jcrit', J) => (pVal' = ps)]_vars

\* C15 witness: the first-order loop after passes that moved both ends, with
\* a p* strictly inside the bracket (every comparison so far was the one a
\* decreasing critical value with root p* gives)
C15_Witness ==
    /\ pc = "j1While"
    /\ nIter >= 3
    /\ PLt(Dy(0, 0), pLow)
    /\ PLt(pHigh, Dy(20, 0))
    /\ \E ps \in PStarVals : PLt(pLow, ps) /\ PLt(ps, pHigh)

\* every intermediate a path read had been assigned earlier on that path
ReadsAssigned == err # "NameError"

\* once the body is past the three assembly sites, exactly one of them built
\* the table
OneSiteBuilds == (pc \in {"assemble", "returned"}) => (Cardinality(built) = 1)

\* C16: for each of the eleven identifiers of the dispatch and every iters,
\* order in {0,1,2} and alt, every intermediate the path reads was assigned
\* earlier on the path, exactly one of the three assembly sites builds the
\* table, and so the call always produces a table (no exception leaves the
\* body).  Stated for calls with alpha in (0,1) and no category of a single
\* observation.
C16_ResultProduced ==
    (test \in DOMAIN names /\ OrderValid /\ AlphaValid /\ DataValid)
      => (ReadsAssigned /\ OneSiteBuilds /\ pc # "raised")

\* this pass found the critical value below or above the statistic, and so
\* moved an end of the bracket (lines 500-505, 539-544, 624-629)
Differ ==
    \/ Lt(CritCompared', StatCompared')
    \/ Gt(CritCompared', StatCompared')

\* an earlier pass has moved an end: the bracket is no longer the [0, 1] of
\* lines 486-487, 531-532, 597-598
Moved == pLow # Dy(0, 0) \/ pHigh # Dy(20, 0)

\* pHigh' - pLow' = (pHigh - pLow)/2, exact
Halved == DyAdd(DyAdd(pHigh', pHigh'), pLow) = DyAdd(DyAdd(pLow', pLow'), pHigh)

\* C17 as stated: in every loop, once a pass has found critical value and
\* statistic different, pVal is (pLow+pHigh)/2 at the start of each later
\* pass; pLow never decreases, pHigh never increases; and pHigh - pLow halves
\* on every pass that finds them different.
C17_HalvesEveryPass ==
    [][(InLoop /\ pc' # "raised")
         => /\ Moved => (pVal = Mid(pLow, pHigh))
            /\ PLe(pLow, pLow') /\ PLe(pHigh', pHigh)
            /\ Differ => Halved]_vars

\* C17 amended: the first pass that finds them different takes the bracket
\* from [0, 1] to [0, 0.05] or [0.05, 1]; pHigh - pLow halves on every later
\* such pass.
C17_Amended ==
    [][(InLoop /\ pc' # "raised")
         => /\ Moved => (pVal = Mid(pLow, pHigh))
            /\ PLe(pLow, pLow') /\ PLe(pHigh', pHigh)
            /\ (Differ /\ Moved) => Halved
            /\ (Differ /\ ~Moved)
                 => \/ pLow' = Dy(0, 0) /\ pHigh' = Dy(1, 0)
                    \/ pLow' = Dy(1, 0) /\ pHigh' = Dy(20, 0)
            /\ ~Differ => (pLow' = pLow /\ pHigh' = pHigh /\ pVal' = pVal)]_vars

\* C17 witness: the second-order loop of James after passes that moved both
\* ends, pVal at the midpoint
C17_Witness ==
    /\ pc = "j2While"
    /\ nIter >= 4
    /\ PLt(Dy(0, 0), pLow)
    /\ PLt(pHigh, Dy(1, 0))
    /\ pVal = Mid(pLow, pHigh)

====
